---- MODULE Spec2Model ----
(***************************************************************************)
(* The browser extension of mapsAIReview/chrome-extension: the fallback    *)
(* restaurant-name resolver getRestaurantNameOnly (popup.js), which runs   *)
(* in the page, and the popup code that calls it when the /scrape request  *)
(* fails.                                                                  *)
(*                                                                         *)
(* A JavaScript string is a sequence of UTF-16 code units (naturals), so   *)
(* that trim, includes, split, the /place/ regular expression and          *)
(* decodeURIComponent are computed the way the engine computes them.       *)
(***************************************************************************)
EXTENDS Integers, Sequences, FiniteSets, TLC

(***************************************************************************)
(* String literals.  Ascii lists the printable characters U+0020..U+007E   *)
(* (the grave accent is written U+0060); S turns a tuple of one-character  *)
(* strings into its code units.                                            *)
(***************************************************************************)
Ascii ==
 <<
    " ", "!", "\"", "#", "$", "%", "&", "'", "(", ")", "*", "+", ",", "-", ".", "/",
    "0", "1", "2", "3", "4", "5", "6", "7", "8", "9", ":", ";", "<", "=", ">", "?",
    "@", "A", "B", "C", "D", "E", "F", "G", "H", "I", "J", "K", "L", "M", "N", "O",
    "P", "Q", "R", "S", "T", "U", "V", "W", "X", "Y", "Z", "[", "\\", "]", "^", "_",
    "U+0060", "a", "b", "c", "d", "e", "f", "g", "h", "i", "j", "k", "l", "m", "n", "o",
    "p", "q", "r", "s", "t", "u", "v", "w", "x", "y", "z", "{", "|", "}", "~"
 >>

Ord(c) == 31 + (CHOOSE i \in 1..Len(Ascii) : Ascii[i] = c)

S(t) == [i \in 1..Len(t) |-> Ord(t[i])]

Min(set) == CHOOSE x \in set : \A y \in set : x <= y

Max(set) == CHOOSE x \in set : \A y \in set : x >= y

\* n copies of the character c
Rep(c, n) == [i \in 1..n |-> Ord(c)]

(***************************************************************************)
(* The String.prototype methods the resolver calls.                        *)
(***************************************************************************)
\* WhiteSpace and LineTerminator code units, which String.prototype.trim strips
IsWhiteSpace(c) ==
    c \in {9, 10, 11, 12, 13, 32, 160, 5760, 8232, 8233, 8239, 8287, 12288, 65279}
          \cup (8192..8202)

\* s.trim()
Trim(s) ==
    LET keep == {i \in 1..Len(s) : ~IsWhiteSpace(s[i])}
    IN  IF keep = {} THEN <<>> ELSE SubSeq(s, Min(keep), Max(keep))

\* the positions at which sub occurs in s
Occurrences(s, sub) ==
    {i \in 1..(Len(s) - Len(sub) + 1) : SubSeq(s, i, i + Len(sub) - 1) = sub}

\* s.includes(sub)
Includes(s, sub) == Occurrences(s, sub) # {}

\* s.split(sep), for a non-empty separator string
RECURSIVE Split(_, _)
Split(s, sep) ==
    LET occ == Occurrences(s, sep)
    IN  IF occ = {} THEN <<s>>
        ELSE <<SubSeq(s, 1, Min(occ) - 1)>>
                 \o Split(SubSeq(s, Min(occ) + Len(sep), Len(s)), sep)

\* s.replace(/\+/g, ' ')
ReplacePlus(s) == [i \in 1..Len(s) |-> IF s[i] = Ord("+") THEN Ord(" ") ELSE s[i]]

\* the literal part of the regular expression /\/place\/([^\/]+)/
PlacePrefix == S(<<"/", "p", "l", "a", "c", "e", "/">>)

NoMatch == [matched |-> FALSE, group |-> <<>>]

\* url.match(/\/place\/([^\/]*)/): the capture may be empty
MatchPlaceStar(url) ==
    LET n == Len(PlacePrefix)
        starts == {i \in 1..(Len(url) - n + 1) : SubSeq(url, i, i + n - 1) = PlacePrefix}
    IN  IF starts = {} THEN NoMatch
        ELSE LET from == Min(starts) + n
                 stops == {j \in from..Len(url) : url[j] = Ord("/")}
                 last == IF stops = {} THEN Len(url) ELSE Min(stops) - 1
             IN  [matched |-> TRUE, group |-> SubSeq(url, from, last)]

\* url.match(/\/place\/([^\/]+)/): the leftmost "/place/" that is followed by at
\* least one character other than "/", capturing the longest run of such characters
MatchPlace(url) ==
    LET n == Len(PlacePrefix)
        starts == {i \in 1..(Len(url) - n) :
                     /\ SubSeq(url, i, i + n - 1) = PlacePrefix
                     /\ url[i + n] # Ord("/")}
    IN  IF starts = {} THEN NoMatch
        ELSE LET from == Min(starts) + n
                 stops == {j \in from..Len(url) : url[j] = Ord("/")}
                 last == IF stops = {} THEN Len(url) ELSE Min(stops) - 1
             IN  [matched |-> TRUE, group |-> SubSeq(url, from, last)]

(***************************************************************************)
(* decodeURIComponent (ECMA-262 Decode with an empty reserved set): each   *)
(* "%XX" is one octet, octets >= 0x80 must form a valid UTF-8 sequence of  *)
(* "%XX" escapes, and anything else throws URIError.                       *)
(***************************************************************************)
HexVal(c) ==
    IF c \in 48..57 THEN c - 48
    ELSE IF c \in 65..70 THEN c - 55
    ELSE IF c \in 97..102 THEN c - 87
    ELSE -1

\* the octet written as "%XX" at position k of s, or -1 when there is none
OctetAt(s, k) ==
    IF /\ k + 2 <= Len(s)
       /\ s[k] = Ord("%")
       /\ HexVal(s[k + 1]) >= 0
       /\ HexVal(s[k + 2]) >= 0
    THEN 16 * HexVal(s[k + 1]) + HexVal(s[k + 2])
    ELSE -1

\* the number of octets of the UTF-8 sequence led by octet b (0: not a lead octet)
Utf8Length(b) ==
    IF b \in 192..223 THEN 2
    ELSE IF b \in 224..239 THEN 3
    ELSE IF b \in 240..247 THEN 4
    ELSE 0

\* the code point of the n-octet sequence at k, or -1 when it is not valid UTF-8
Utf8CodePoint(s, k, n) ==
    LET b == [j \in 0..(n - 1) |-> OctetAt(s, k + 3 * j)]
    IN  IF \E j \in 1..(n - 1) : b[j] \notin 128..191 THEN -1
        ELSE LET v == IF n = 2 THEN (b[0] - 192) * 64 + (b[1] - 128)
                      ELSE IF n = 3
                           THEN (b[0] - 224) * 4096 + (b[1] - 128) * 64 + (b[2] - 128)
                      ELSE (b[0] - 240) * 262144 + (b[1] - 128) * 4096
                               + (b[2] - 128) * 64 + (b[3] - 128)
                 valid == IF n = 2 THEN v >= 128
                          ELSE IF n = 3 THEN v >= 2048 /\ v \notin 55296..57343
                          ELSE v \in 65536..1114111
             IN  IF valid THEN v ELSE -1

\* the UTF-16 code units of code point v
Utf16(v) ==
    IF v < 65536 THEN <<v>>
    ELSE <<55296 + ((v - 65536) \div 1024), 56320 + ((v - 65536) % 1024)>>

URIError == [ok |-> FALSE, value |-> <<>>]

RECURSIVE Decode(_, _, _)
Decode(s, k, acc) ==
    IF k > Len(s) THEN [ok |-> TRUE, value |-> acc]
    ELSE IF s[k] # Ord("%") THEN Decode(s, k + 1, Append(acc, s[k]))
    ELSE LET b == OctetAt(s, k)
         IN  IF b < 0 THEN URIError
             ELSE IF b < 128 THEN Decode(s, k + 3, Append(acc, b))
             ELSE LET n == Utf8Length(b)
                      v == IF n = 0 THEN -1 ELSE Utf8CodePoint(s, k, n)
                  IN  IF v < 0 THEN URIError
                      ELSE Decode(s, k + 3 * n, acc \o Utf16(v))

decodeURIComponent(s) == Decode(s, 1, <<>>)

(***************************************************************************)
(* Texts of the program.                                                   *)
(***************************************************************************)
GoogleMaps == S(<<"G", "o", "o", "g", "l", "e", " ", "M", "a", "p", "s">>)

Directions == S(<<"D", "i", "r", "e", "c", "t", "i", "o", "n", "s">>)

Reviews == S(<<"R", "e", "v", "i", "e", "w", "s">>)

TitleSeparator == S(<<" ", "-", " ">>)

GoogleComMaps == S(<<"g", "o", "o", "g", "l", "e", ".", "c", "o", "m", "/", "m", "a", "p", "s">>)

MapsGoogleCom == S(<<"m", "a", "p", "s", ".", "g", "o", "o", "g", "l", "e", ".", "c", "o", "m">>)

LoadingRestaurantData ==
    S(<<"L", "o", "a", "d", "i", "n", "g", " ", "r", "e", "s", "t", "a", "u", "r", "a",
          "n", "t", " ", "d", "a", "t", "a", ".", ".", ".">>)

ReadyToChatAbout ==
    S(<<"R", "e", "a", "d", "y", " ", "t", "o", " ", "c", "h", "a", "t", " ", "a", "b",
          "o", "u", "t", " ">>)

ThisRestaurant == S(<<"t", "h", "i", "s", " ", "r", "e", "s", "t", "a", "u", "r", "a", "n", "t">>)

\* the locators of getRestaurantNameOnly, in priority order
nameSelectors ==
    << "h1[data-attrid=\"title\"]",
       "h1.x3AX1-LfntMc-header-title-title",
       "[data-value=\"title\"]",
       "[data-value=\"title\"] span",
       ".DUwDvf.lfPIob",
       ".x3AX1-LfntMc-header-title-title span",
       ".fontHeadlineSmall",
       "h1",
       "[aria-level=\"1\"]",
       ".section-hero-header-title",
       ".section-hero-header-title span",
       "[role=\"main\"] h1",
       "[role=\"main\"] [aria-level=\"1\"]" >>

Selectors == {nameSelectors[i] : i \in 1..Len(nameSelectors)}

(***************************************************************************)
(* State.                                                                  *)
(*   The page of the active tab:                                           *)
(*     dom             what document.querySelector finds for each locator  *)
(*     title, href     document.title and window.location.href             *)
(*     brokenSelectors the locators for which the query itself throws      *)
(*   The popup:                                                            *)
(*     pc              where the popup's start-up code stands              *)
(*     currentUrl, restaurantData, conversationHistory   its variables     *)
(*     statusText, chatShown, errorText                  its elements      *)
(*   History:                                                              *)
(*     result          what the last run of getRestaurantNameOnly gave     *)
(*     calls           the results of all its runs on this page            *)
(*     opens           how many times the popup was opened                 *)
(*   The chat of the popup:                                                *)
(*     chatInput       chatInput.value                                     *)
(*     sendDisabled, sendLoadingShown   the send button and its indicator  *)
(*     chatMessages    the messages appended to the chat, in order         *)
(*     pending         the calls of handleSendMessage that wait for /chat  *)
(*     stats           counts of what the user submitted (history)         *)
(*   The background service worker:                                        *)
(*     badgeText, badgeColor   the badge of each tab                       *)
(*     lastEvent       the tab-update event handled last (history)         *)
(*     lastComplete    per tab, the URL of the last update event with      *)
(*                     status 'complete' and a URL (history)               *)
(***************************************************************************)
VARIABLES dom, title, href, brokenSelectors,
          pc, currentUrl, restaurantData, conversationHistory,
          statusText, chatShown, errorText,
          result, calls, opens

VARIABLES chatInput, sendDisabled, sendLoadingShown, chatMessages, pending, stats

VARIABLES badgeText, badgeColor, lastEvent, lastComplete

chatVars == <<chatInput, sendDisabled, sendLoadingShown, chatMessages, pending, stats>>

badgeVars == <<badgeText, badgeColor, lastEvent, lastComplete>>

page == <<dom, title, href, brokenSelectors>>

popupVars == <<currentUrl, restaurantData, conversationHistory>>

vars == <<dom, title, href, brokenSelectors,
          pc, currentUrl, restaurantData, conversationHistory,
          statusText, chatShown, errorText,
          result, calls, opens,
          chatInput, sendDisabled, sendLoadingShown, chatMessages, pending, stats,
          badgeText, badgeColor, lastEvent, lastComplete>>

\* how many tabs the browser has
MaxTabs == 2

Tabs == 1..MaxTabs

\* tab.url when the extension may not read it
UndefinedUrl == [defined |-> FALSE, url |-> <<>>]

Url(u) == [defined |-> TRUE, url |-> u]

NoEvent == [tabId |-> 0, status |-> "", tab |-> UndefinedUrl]

\* the chat of a freshly loaded popup
ChatIdle ==
    /\ chatInput = <<>>
    /\ sendDisabled = FALSE
    /\ sendLoadingShown = FALSE
    /\ chatMessages = <<>>
    /\ pending = {}
    /\ stats = [submitted |-> 0, blank |-> 0, chatRequests |-> 0]

\* no tab has a badge and no tab-update event was handled
BadgeIdle ==
    /\ badgeText = [t \in Tabs |-> <<>>]
    /\ badgeColor = [t \in Tabs |-> ""]
    /\ lastEvent = NoEvent
    /\ lastComplete = [t \in Tabs |-> UndefinedUrl]

NoElement == [found |-> FALSE, textContent |-> <<>>]

Element(text) == [found |-> TRUE, textContent |-> text]

\* what a run of the resolver gives: a string, null, or an exception
Null == [kind |-> "null", value |-> <<>>]

Str(s) == [kind |-> "string", value |-> s]

Throws == [kind |-> "throw", value |-> <<>>]

\* the resolver did not run
NotRun == [kind |-> "none", value |-> <<>>]

(***************************************************************************)
(* getRestaurantNameOnly.                                                  *)
(***************************************************************************)
\* the filter with name.length >= 2 for name.length > 2
isValidNameOffByOne(name) ==
    /\ name # <<>>
    /\ ~Includes(name, GoogleMaps)
    /\ ~Includes(name, Directions)
    /\ ~Includes(name, Reviews)
    /\ Len(name) >= 2
    /\ Len(name) < 100

\* the filter on the text of a matched element
isValidName(name) ==
    /\ name # <<>>
    /\ ~Includes(name, GoogleMaps)
    /\ ~Includes(name, Directions)
    /\ ~Includes(name, Reviews)
    /\ Len(name) > 2
    /\ Len(name) < 100

\* the loop without its early return: a later valid name replaces an earlier one
RECURSIVE selectorLoopKeepsLast(_)
selectorLoopKeepsLast(i) ==
    IF i > Len(nameSelectors) THEN Null
    ELSE IF nameSelectors[i] \in brokenSelectors THEN Throws
    ELSE LET element == dom[nameSelectors[i]]
             name == Trim(element.textContent)
             later == selectorLoopKeepsLast(i + 1)
         IN  IF later # Null THEN later
             ELSE IF element.found /\ (name # <<>> /\ ~Includes(name, GoogleMaps)
                                       /\ ~Includes(name, Directions)
                                       /\ ~Includes(name, Reviews)
                                       /\ Len(name) > 2 /\ Len(name) < 100)
             THEN Str(name)
             ELSE Null

\* the loop over nameSelectors from index i: the first valid name, Null when
\* the loop ends without a return; an exception of querySelector leaves the
\* function
RECURSIVE selectorLoop(_)
selectorLoop(i) ==
    IF i > Len(nameSelectors) THEN Null
    ELSE IF nameSelectors[i] \in brokenSelectors THEN Throws
    ELSE LET element == dom[nameSelectors[i]]
             name == Trim(element.textContent)
         IN  IF element.found /\ isValidName(name)
             THEN Str(name)
             ELSE selectorLoop(i + 1)

\* the title fallback returning titleParts[0] as it is, untrimmed
titleFallbackUntrimmed ==
    IF title # <<>> /\ ~Includes(title, GoogleMaps)
    THEN LET titleParts == Split(title, TitleSeparator)
         IN  IF titleParts[1] # <<>> /\ Len(Trim(titleParts[1])) > 2
             THEN Str(titleParts[1])
             ELSE Null
    ELSE Null

\* the page title as fallback
titleFallback ==
    IF title # <<>> /\ ~Includes(title, GoogleMaps)
    THEN LET titleParts == Split(title, TitleSeparator)
         IN  IF titleParts[1] # <<>> /\ Len(Trim(titleParts[1])) > 2
             THEN Str(Trim(titleParts[1]))
             ELSE Null
    ELSE Null

\* the URL as last resort
urlExtraction ==
    LET placeMatch == MatchPlace(href)
    IN  IF placeMatch.matched
        THEN LET decoded == decodeURIComponent(placeMatch.group)
             IN  IF decoded.ok THEN Str(ReplacePlus(decoded.value)) ELSE Throws
        ELSE Null

getRestaurantNameOnly ==
    LET fromSelectors == selectorLoop(1)
    IN  IF fromSelectors # Null THEN fromSelectors
        ELSE IF titleFallback # Null THEN titleFallback
        ELSE urlExtraction

(***************************************************************************)
(* The popup.                                                              *)
(***************************************************************************)
isGoogleMapsPage(url) == Includes(url, GoogleComMaps) \/ Includes(url, MapsGoogleCom)

NoData == [loaded |-> FALSE, title |-> <<>>]

\* getBasicRestaurantName reading results.result, which no array has
getBasicRestaurantNameNoResult(r) == Null

\* getBasicRestaurantName: results[0]?.result || null, and null when the
\* injection fails; an exception in the injected function leaves no result
getBasicRestaurantName(r) ==
    IF r.kind = "string" /\ r.value # <<>> THEN r ELSE Null

\* the catch branch keeping the name it found as the restaurant data
FallbackStoresName ==
    /\ pc = "fallback"
    /\ \E injected \in BOOLEAN :
         LET r == IF injected THEN getRestaurantNameOnly ELSE NotRun
             basicName == getBasicRestaurantName(r)
         IN  /\ result' = r
             /\ calls' = IF injected THEN Append(calls, r) ELSE calls
             /\ statusText' = IF basicName # Null
                              THEN ReadyToChatAbout \o basicName.value
                              ELSE ReadyToChatAbout \o ThisRestaurant
             /\ restaurantData' = IF basicName # Null
                                  THEN [loaded |-> FALSE, title |-> basicName.value]
                                  ELSE restaurantData
    /\ chatShown' = TRUE
    /\ errorText' = "Could not connect to local server. Make sure it's running on port 5000."
    /\ pc' = "ready"
    /\ UNCHANGED <<page, currentUrl, conversationHistory, opens,
                   chatVars, badgeVars>>

\* the catch branch of loadRestaurantData, after the /scrape request failed:
\* the resolver is injected into the tab (the injection itself may be rejected)
\* and the status line is written from what it gives
Fallback ==
    /\ pc = "fallback"
    /\ \E injected \in BOOLEAN :
         LET r == IF injected THEN getRestaurantNameOnly ELSE NotRun
             basicName == getBasicRestaurantName(r)
         IN  /\ result' = r
             /\ calls' = IF injected THEN Append(calls, r) ELSE calls
             /\ statusText' = IF basicName # Null
                              THEN ReadyToChatAbout \o basicName.value
                              ELSE ReadyToChatAbout \o ThisRestaurant
    /\ chatShown' = TRUE
    /\ errorText' = "Could not connect to local server. Make sure it's running on port 5000."
    /\ pc' = "ready"
    /\ UNCHANGED <<page, popupVars, opens,
                   chatVars, badgeVars>>

(***************************************************************************)
(* The pages the resolver is run on.                                       *)
(***************************************************************************)
\* how many locators match an element at once
MaxMatched == 2

LuigisPizzeria ==
    S(<<"L", "u", "i", "g", "i", "'", "s", " ", "P", "i", "z", "z", "e", "r", "i", "a">>)

\* a heading whose text is surrounded by line breaks and blanks
JoesDinerPadded ==
    <<10, 32, 32>> \o S(<<"J", "o", "e", "'", "s", " ", "D", "i", "n", "e", "r">>) \o <<32, 10>>

GetDirections ==
    S(<<"G", "e", "t", " ", "D", "i", "r", "e", "c", "t", "i", "o", "n", "s">>)

\* texts of elements that several locators may match at once
CoreTexts == {LuigisPizzeria, JoesDinerPadded, Reviews, S(<<"x">>)}

\* texts at the edges of the filter, for a single matched locator
EdgeTexts ==
    { <<>>, <<32, 10, 32>>, S(<<"a", "b">>), S(<<"a", "b", "c">>),
      Rep("a", 99), Rep("a", 100), Rep("a", 150),
      GoogleMaps, GetDirections, S(<<"4">>) \o <<160>> \o Reviews }

EmptyDom == [s \in Selectors |-> NoElement]

\* the page in which the locators of DOMAIN m match elements with the texts m
DomOf(m) == [s \in Selectors |-> IF s \in DOMAIN m THEN Element(m[s]) ELSE NoElement]

Doms ==
    {DomOf(m) : m \in UNION {[M -> CoreTexts] :
                               M \in {M \in SUBSET Selectors : Cardinality(M) <= MaxMatched}}}
      \cup {DomOf(s :> t) : s \in Selectors, t \in EdgeTexts}

\* document.title strips and collapses ASCII white space, so no title of the
\* pool starts or ends with a blank; U+00A0 is kept
TitleLuigiGoogleMaps ==
    S(<<"L", "u", "i", "g", "i", "'", "s", " ", "P", "i", "z", "z", "e", "r", "i",
        "a", " ", "-", " ", "G", "o", "o", "g", "l", "e", " ", "M", "a", "p", "s">>)

TitleLuigiOrder ==
    S(<<"L", "u", "i", "g", "i", "'", "s", " ", "P", "i", "z", "z", "e", "r", "i",
        "a", " ", "-", " ", "O", "r", "d", "e", "r", " ", "O", "n", "l", "i",
        "n", "e", " ", "-", " ", "M", "e", "n", "u">>)

TitleJoesDiner ==
    S(<<"J", "o", "e", "'", "s", " ", "D", "i", "n", "e", "r">>)

TitleJoBar ==
    S(<<"J", "o", " ", "-", " ", "B", "a", "r">>)

TitleBobGrill ==
    S(<<"B", "o", "b", " ", "-", " ", "G", "r", "i", "l", "l">>)

TitleJoNbsp == S(<<"J", "o">>) \o <<160>> \o S(<<" ", "-", " ", "B", "a", "r">>)

TitleNbspMenu == <<160>> \o S(<<" ", "-", " ", "M", "e", "n", "u">>)

TitleBobNbsp == <<160>> \o S(<<"B", "o", "b", " ", "-", " ", "M", "e", "n", "u">>)

Titles ==
    { TitleLuigiGoogleMaps, GoogleMaps, <<>>, TitleLuigiOrder, TitleJoesDiner,
      TitleJoBar, TitleBobGrill, TitleJoNbsp, TitleNbspMenu, TitleBobNbsp }

MapsOrigin ==
    S(<<"h", "t", "t", "p", "s", ":", "/", "/", "w", "w", "w", ".", "g", "o", "o",
        "g", "l", "e", ".", "c", "o", "m", "/", "m", "a", "p", "s">>)

\* addresses of Google Maps pages
HrefNoPlace == MapsOrigin \o S(<<"/", "@", "4", "0", ".", "7", ",", "-", "7", "4", ".", "0", ",", "1", "5", "z">>)

HrefLuigi == MapsOrigin \o
    S(<<"/", "p", "l", "a", "c", "e", "/", "L", "u", "i", "g", "i", "%", "2", "7",
        "s", "+", "P", "i", "z", "z", "e", "r", "i", "a", "/", "@", "4", "0",
        ".", "7", ",", "-", "7", "4", ".", "0">>)

HrefJoe == MapsOrigin \o S(<<"/", "p", "l", "a", "c", "e", "/", "J", "o", "e">>)

HrefCafe == MapsOrigin \o
    S(<<"/", "p", "l", "a", "c", "e", "/", "C", "a", "f", "%", "C", "3", "%", "A",
        "9", "+", "R", "o", "m", "a", "/", "d", "a", "t", "a", "=", "!", "4",
        "m", "2">>)

HrefPlus == MapsOrigin \o S(<<"/", "p", "l", "a", "c", "e", "/", "+", "/", "@", "4", "0", ".", "7">>)

HrefEmptySegment == MapsOrigin \o S(<<"/", "p", "l", "a", "c", "e", "/", "/", "@", "4", "0", ".", "7">>)

\* a "%" that starts no escape, and an escape that is not UTF-8
HrefPercent == MapsOrigin \o S(<<"/", "p", "l", "a", "c", "e", "/", "1", "0", "0", "%", "/", "@", "4", "0",
        ".", "7">>)

HrefLatin1 == MapsOrigin \o S(<<"/", "p", "l", "a", "c", "e", "/", "C", "a", "f", "%", "E", "9", "/", "@",
        "4", "0", ".", "7">>)

Hrefs ==
    { HrefNoPlace, HrefLuigi, HrefJoe, HrefCafe, HrefPlus, HrefEmptySegment,
      HrefPercent, HrefLatin1 }

\* the pages: many element configurations with few titles and addresses, and
\* few element configurations with every title and address
InitPage ==
    /\ \/ /\ dom \in Doms
          /\ title \in {TitleLuigiGoogleMaps, TitleLuigiOrder}
          /\ href \in {HrefNoPlace, HrefLuigi}
       \/ /\ dom \in {EmptyDom, DomOf("h1" :> Reviews)}
          /\ title \in Titles
          /\ href \in Hrefs
    /\ brokenSelectors = {}

\* the popup where the /scrape request of loadRestaurantData has failed
InitFallback ==
    /\ isGoogleMapsPage(href)
    /\ pc = "fallback"
    /\ currentUrl = href
    /\ restaurantData = NoData
    /\ conversationHistory = <<>>
    /\ statusText = LoadingRestaurantData
    /\ chatShown = FALSE
    /\ errorText = ""
    /\ result = NotRun
    /\ calls = <<>>
    /\ opens = 1
    /\ ChatIdle
    /\ BadgeIdle

Init == InitPage /\ InitFallback

Next == Fallback

Spec == Init /\ [][Next]_vars

(***************************************************************************)
(* The same pages with one locator whose query throws (a selector the      *)
(* engine rejects, a document that is going away).                         *)
(***************************************************************************)
InitQueryFault ==
    /\ dom \in {EmptyDom, DomOf("h1" :> LuigisPizzeria),
                DomOf(".fontHeadlineSmall" :> LuigisPizzeria)}
    /\ title \in {TitleLuigiGoogleMaps, TitleLuigiOrder, GoogleMaps}
    /\ href \in {HrefNoPlace, HrefLuigi}
    /\ \E s \in Selectors : brokenSelectors = {s}
    /\ InitFallback

SpecQueryFault == InitQueryFault /\ [][Next]_vars

(***************************************************************************)
(* The popup from its opening: checkCurrentPage, loadRestaurantData, and   *)
(* the popup being closed and opened again on the same page.               *)
(***************************************************************************)
\* how many times the popup is opened
MaxOpens == 2

HrefElsewhere ==
    S(<<"h", "t", "t", "p", "s", ":", "/", "/", "e", "x", "a", "m", "p", "l", "e", ".",
        "o", "r", "g", "/", "p", "l", "a", "c", "e", "/", "L", "u", "i", "g", "i">>)

\* the module-level variables and the elements of a freshly loaded popup
FreshPopup ==
    /\ pc = "init"
    /\ currentUrl = <<>>
    /\ restaurantData = NoData
    /\ conversationHistory = <<>>
    /\ statusText = <<>>
    /\ chatShown = FALSE
    /\ errorText = ""

InitPopup ==
    /\ dom \in {EmptyDom, DomOf("h1" :> JoesDinerPadded),
                DomOf((".DUwDvf.lfPIob" :> Reviews) @@ ("h1" :> LuigisPizzeria))}
    /\ title \in {TitleLuigiGoogleMaps, TitleJoesDiner, GoogleMaps}
    /\ href \in {HrefNoPlace, HrefLuigi, HrefPercent, HrefElsewhere}
    /\ brokenSelectors = {}
    /\ FreshPopup
    /\ result = NotRun
    /\ calls = <<>>
    /\ opens = 1
    /\ ChatIdle
    /\ BadgeIdle

\* checkCurrentPage up to the call of loadRestaurantData; chrome.tabs.query may
\* reject, which the catch reports
checkCurrentPage ==
    /\ pc = "init"
    /\ \E queried \in BOOLEAN :
         IF ~queried
         THEN /\ errorText' = "Error checking current page"
              /\ pc' = "done"
              /\ UNCHANGED <<currentUrl, statusText>>
         ELSE /\ currentUrl' = href
              /\ IF ~isGoogleMapsPage(href)
                 THEN /\ errorText' = "Please navigate to a restaurant page on Google Maps"
                      /\ pc' = "done"
                      /\ UNCHANGED statusText
                 ELSE /\ statusText' = LoadingRestaurantData
                      /\ pc' = "loading"
                      /\ UNCHANGED errorText
    /\ UNCHANGED <<page, restaurantData, conversationHistory, chatShown, result, calls, opens,
                   chatVars, badgeVars>>

\* loadRestaurantData when /scrape answers with JSON, with or without
\* locationDetails.title
ScrapeOk ==
    /\ pc = "loading"
    /\ \E t \in {<<>>, LuigisPizzeria} :
         /\ restaurantData' = [loaded |-> TRUE, title |-> t]
         /\ statusText' = IF t # <<>>
                          THEN ReadyToChatAbout \o t
                          ELSE ReadyToChatAbout \o ThisRestaurant
    /\ chatShown' = TRUE
    /\ pc' = "ready"
    /\ UNCHANGED <<page, currentUrl, conversationHistory, errorText, result, calls, opens,
                   chatVars, badgeVars>>

\* loadRestaurantData when fetch rejects, the status is not OK or the body is
\* no JSON: control enters the catch branch
ScrapeFail ==
    /\ pc = "loading"
    /\ pc' = "fallback"
    /\ UNCHANGED <<page, popupVars, statusText, chatShown, errorText, result, calls, opens,
                   chatVars, badgeVars>>

\* the popup is closed and opened again: its script starts afresh
Reopen ==
    /\ pc \in {"ready", "done"}
    /\ opens < MaxOpens
    /\ opens' = opens + 1
    /\ pc' = "init"
    /\ currentUrl' = <<>>
    /\ restaurantData' = NoData
    /\ conversationHistory' = <<>>
    /\ statusText' = <<>>
    /\ chatShown' = FALSE
    /\ errorText' = ""
    /\ result' = NotRun
    /\ chatInput' = <<>>
    /\ sendDisabled' = FALSE
    /\ sendLoadingShown' = FALSE
    /\ chatMessages' = <<>>
    /\ pending' = {}
    /\ stats' = [submitted |-> 0, blank |-> 0, chatRequests |-> 0]
    /\ UNCHANGED <<page, calls, badgeVars>>

NextPopup ==
    \/ checkCurrentPage
    \/ ScrapeOk
    \/ ScrapeFail
    \/ Fallback
    \/ Reopen

SpecPopup == InitPopup /\ [][NextPopup]_vars

(***************************************************************************)
(* The claims.  They speak of a run of the resolver on the current page:   *)
(* result is what the run gave.                                            *)
(***************************************************************************)
Ran == result.kind # "none"

Locators == 1..Len(nameSelectors)

\* the trimmed text of the element a locator matches
Matched(i) == dom[nameSelectors[i]].found

Candidate(i) == Trim(dom[nameSelectors[i]].textContent)

\* the validity filter as the specification words it
Rejected(text) ==
    \/ text = <<>>
    \/ Includes(text, GoogleMaps)
    \/ Includes(text, Directions)
    \/ Includes(text, Reviews)
    \/ Len(text) <= 2
    \/ Len(text) >= 100

ValidLocators == {i \in Locators : Matched(i) /\ ~Rejected(Candidate(i))}

\* the first " - " segment of the title, trimmed
FirstTitleSegment == Trim(Split(title, TitleSeparator)[1])

\* the title stage yields nothing
TitleYieldsNothing ==
    \/ title = <<>>
    \/ Includes(title, GoogleMaps)
    \/ Len(FirstTitleSegment) <= 2

\* C1: when some locator matches an element whose trimmed text passes the
\* filter, the resolver returns the trimmed text of the first such locator in
\* list order, whatever later locators, the title and the address hold.
C1_FirstValidLocatorWins ==
    (Ran /\ ValidLocators # {}) => result = Str(Candidate(Min(ValidLocators)))

\* two locators match valid, different texts and the earlier one was returned
C1_Witness ==
    /\ Ran
    /\ \E i, j \in ValidLocators : i < j /\ Candidate(i) # Candidate(j)
    /\ result = Str(Candidate(Min(ValidLocators)))

\* C2: a candidate that is empty, contains "Google Maps", "Directions" or
\* "Reviews", or has length <= 2 or >= 100 is passed over; when every locator
\* is unmatched or rejected the resolver returns no structural text but what
\* the title strategy (and after it the address strategy) gives.
C2_RejectedFallThrough ==
    (Ran /\ ValidLocators = {}) =>
        result = (IF titleFallback # Null THEN titleFallback ELSE urlExtraction)

\* two locators match rejected texts and the name came from the title
C2_Witness ==
    /\ Ran
    /\ ValidLocators = {}
    /\ Cardinality({i \in Locators : Matched(i)}) = 2
    /\ result = titleFallback
    /\ result.kind = "string"

\* the title is "<Name> - Google Maps": the marker is its last segment only
TitleHasMarkerSuffix ==
    LET parts == Split(title, TitleSeparator)
    IN  /\ Len(parts) = 2
        /\ parts[2] = GoogleMaps
        /\ ~Includes(parts[1], GoogleMaps)
        /\ Len(Trim(parts[1])) > 2

\* C3: with no valid structural candidate and a title of the form
\* "<Name> - Google Maps", the resolver returns the first " - " segment of the
\* title.
C3_MarkerSuffixTitleIsSplit ==
    (Ran /\ ValidLocators = {} /\ TitleHasMarkerSuffix) =>
        result = Str(FirstTitleSegment)

\* C4: with no valid structural candidate and a title without "Google Maps",
\* the resolver returns the trimmed first " - " segment of the title when its
\* length exceeds 2, and otherwise (the title empty or the segment too short)
\* goes on to the address strategy.
C4_TitleSplit ==
    (Ran /\ ValidLocators = {} /\ ~Includes(title, GoogleMaps)) =>
        IF Len(FirstTitleSegment) > 2
        THEN result = Str(FirstTitleSegment)
        ELSE result = urlExtraction

\* the first segment was returned without the no-break space around it
C4_Witness ==
    /\ Ran
    /\ ValidLocators = {}
    /\ ~Includes(title, GoogleMaps)
    /\ Split(title, TitleSeparator)[1] # FirstTitleSegment
    /\ Len(FirstTitleSegment) > 2
    /\ result = Str(FirstTitleSegment)

\* C5: when stage 1 and the title stage both fail and the address has a
\* "/place/<segment>" part, the resolver returns the segment percent-decoded
\* with every "+" replaced by a space; when an earlier stage succeeds its
\* result is returned, not the address's.
C5_AddressDecoded ==
    Ran =>
      /\ (ValidLocators = {} /\ TitleYieldsNothing /\ MatchPlace(href).matched) =>
            /\ result.kind = "string"
            /\ result.value = ReplacePlus(decodeURIComponent(MatchPlace(href).group).value)
      /\ (ValidLocators = {} /\ ~TitleYieldsNothing) => result = Str(FirstTitleSegment)

\* C6: the resolver returns null exactly when no locator yields a valid
\* candidate, the title stage yields nothing and the address does not match
\* "/place/<segment>"; a string it returns is never empty.
C6_NullIffAllStagesFail ==
    Ran =>
      /\ result = Null <=>
            (ValidLocators = {} /\ TitleYieldsNothing /\ ~MatchPlace(href).matched)
      /\ result.kind = "string" => result.value # <<>>

\* all three stages failed on a page whose address has an empty /place/ segment
C6_Witness ==
    /\ Ran
    /\ result = Null
    /\ \E i \in Locators : Matched(i)
    /\ title = GoogleMaps
    /\ href = HrefEmptySegment

\* C7: on every page the resolver ends with a string or null and raises no
\* exception.
C7_NeverRaises == Ran => result.kind \in {"string", "null"}

\* the locators whose query works and whose candidate is valid
WorkingValidLocators == {i \in ValidLocators : nameSelectors[i] \notin brokenSelectors}

\* C8: a locator whose query fails counts as not found: the resolver goes on
\* with the next locator and then with the title and the address.
C8_QueryFailureSkipped ==
    (Ran /\ brokenSelectors # {}) =>
        result = (IF WorkingValidLocators # {}
                  THEN Str(Candidate(Min(WorkingValidLocators)))
                  ELSE IF titleFallback # Null THEN titleFallback
                  ELSE urlExtraction)

ThisPlace == S(<<"t", "h", "i", "s", " ", "p", "l", "a", "c", "e">>)

\* the status line once the catch branch of loadRestaurantData has run
FallbackDone == pc = "ready" /\ ~restaurantData.loaded

\* C10 as stated: when the resolver yields no name (or its injection fails) the
\* status line names "this place", and otherwise exactly the name.
C10_PlaceholderThisPlace ==
    FallbackDone =>
        statusText = ReadyToChatAbout \o
                       (IF result.kind = "string" THEN result.value ELSE ThisPlace)

\* C10 as amended: when the resolver yields no name (or its injection fails)
\* the status line names "this restaurant", and otherwise exactly the name.
C10_PlaceholderThisRestaurant ==
    FallbackDone =>
        statusText = ReadyToChatAbout \o
                       (IF result.kind = "string" THEN result.value ELSE ThisRestaurant)

\* the resolver ran, found no name, and the status line has the placeholder
C10_Witness ==
    /\ FallbackDone
    /\ result = Null
    /\ statusText = ReadyToChatAbout \o ThisRestaurant

(***************************************************************************)
(* The chat loop of the popup: handleSendMessage, started by the send      *)
(* button, the Enter key or an example button, and the /chat request it    *)
(* waits for.                                                              *)
(***************************************************************************)
\* how many times the user submits the input in one life of the popup
MaxQuestions == 3

\* what the user types: nothing, blanks, a question with blanks around it
QuestionTyped == S(<<"I", "s", " ", "i", "t", " ", "v", "e", "g", "a", "n", "?">>)

Inputs == {<<>>, <<32, 32>>, <<32>> \o QuestionTyped \o <<32>>}

\* the data-question attributes of the example buttons (one button has none)
QuestionExample ==
    S(<<"W", "h", "a", "t", " ", "a", "r", "e", " ", "t", "h", "e", " ", "b", "e",
        "s", "t", " ", "d", "i", "s", "h", "e", "s", "?">>)

ExampleQuestions == {<<>>, QuestionExample}

Apology ==
    S(<<"S", "o", "r", "r", "y", ",", " ", "I", " ", "e", "n", "c", "o", "u", "n",
        "t", "e", "r", "e", "d", " ", "a", "n", " ", "e", "r", "r", "o", "r",
        ".", " ", "P", "l", "e", "a", "s", "e", " ", "t", "r", "y", " ", "a",
        "g", "a", "i", "n", ".">>)

\* the answer of the server
AnswerText == S(<<"T", "r", "y", " ", "t", "h", "e", " ", "m", "a", "r", "g", "h", "e", "r",
        "i", "t", "a", ".">>)

Message(text, type) == [type |-> type, text |-> text]

\* askQuestionWithData with !restaurantData false for every value
noRestaurantDataNever(data) == FALSE

\* the test !restaurantData of askQuestionWithData
noRestaurantData(data) == ~data.loaded

NoRestaurantDataMessage ==
    "No restaurant data loaded. Please try refreshing the extension."

\* the counts after the input value was submitted; sent tells whether a /chat
\* request was made
Submitted(value, sent) ==
    [submitted |-> stats.submitted + (IF Trim(value) # <<>> THEN 1 ELSE 0),
     blank |-> stats.blank + (IF Trim(value) = <<>> THEN 1 ELSE 0),
     chatRequests |-> stats.chatRequests + (IF sent THEN 1 ELSE 0)]

\* handleSendMessage testing chatInput.value without trimming it
handleSendMessageUntrimmed(value) ==
    LET question == value
    IN  /\ IF question = <<>>
           THEN /\ chatInput' = value
                /\ stats' = Submitted(value, FALSE)
                /\ UNCHANGED <<sendDisabled, sendLoadingShown, chatMessages, pending, errorText>>
           ELSE IF ~restaurantData.loaded
           THEN /\ chatMessages' = chatMessages \o
                                     <<Message(question, "user"), Message(Apology, "bot")>>
                /\ chatInput' = <<>>
                /\ sendDisabled' = FALSE
                /\ sendLoadingShown' = FALSE
                /\ errorText' = NoRestaurantDataMessage
                /\ stats' = Submitted(value, FALSE)
                /\ UNCHANGED pending
           ELSE /\ chatMessages' = Append(chatMessages, Message(question, "user"))
                /\ chatInput' = <<>>
                /\ sendDisabled' = TRUE
                /\ sendLoadingShown' = TRUE
                /\ errorText' = ""
                /\ pending' = pending \cup {[id |-> stats.submitted + stats.blank + 1,
                                             question |-> question]}
                /\ stats' = Submitted(value, TRUE)
        /\ UNCHANGED <<page, pc, popupVars, statusText, chatShown, result, calls, opens, badgeVars>>

\* handleSendMessage on the input value, as far as its await.  Without
\* restaurant data askQuestionWithData rejects before any request is made, and
\* catch and finally run before the next event is handled.
handleSendMessage(value) ==
    LET question == Trim(value)
    IN  /\ IF question = <<>>
           THEN /\ chatInput' = value
                /\ stats' = Submitted(value, FALSE)
                /\ UNCHANGED <<sendDisabled, sendLoadingShown, chatMessages, pending, errorText>>
           ELSE IF noRestaurantData(restaurantData)
           THEN /\ chatMessages' = chatMessages \o
                                     <<Message(question, "user"), Message(Apology, "bot")>>
                /\ chatInput' = <<>>
                /\ sendDisabled' = FALSE
                /\ sendLoadingShown' = FALSE
                /\ errorText' = NoRestaurantDataMessage
                /\ stats' = Submitted(value, FALSE)
                /\ UNCHANGED pending
           ELSE /\ chatMessages' = Append(chatMessages, Message(question, "user"))
                /\ chatInput' = <<>>
                /\ sendDisabled' = TRUE
                /\ sendLoadingShown' = TRUE
                /\ errorText' = ""
                /\ pending' = pending \cup {[id |-> stats.submitted + stats.blank + 1,
                                             question |-> question]}
                /\ stats' = Submitted(value, TRUE)
        /\ UNCHANGED <<page, pc, popupVars, statusText, chatShown, result, calls, opens, badgeVars>>

\* the chat is shown, its listeners are set up, and the user may act
ChatOpen ==
    /\ pc = "ready"
    /\ chatShown
    /\ stats.submitted + stats.blank < MaxQuestions

\* the user edits the input
TypeInput ==
    /\ ChatOpen
    /\ \E v \in Inputs \ {chatInput} : chatInput' = v
    /\ UNCHANGED <<page, pc, popupVars, statusText, chatShown, errorText, result, calls, opens,
                   sendDisabled, sendLoadingShown, chatMessages, pending, stats, badgeVars>>

\* a click on the send button, which a disabled button does not deliver
ClickSend ==
    /\ ChatOpen
    /\ ~sendDisabled
    /\ handleSendMessage(chatInput)

KeyEvents ==
    { [key |-> "Enter", shiftKey |-> FALSE], [key |-> "Enter", shiftKey |-> TRUE],
      [key |-> "a", shiftKey |-> FALSE] }

\* a key pressed in the input
handleKeyPress ==
    /\ ChatOpen
    /\ \E event \in KeyEvents :
         IF event.key = "Enter" /\ ~event.shiftKey
         THEN handleSendMessage(chatInput)
         ELSE UNCHANGED vars

\* a click on an example button
ClickExample ==
    /\ ChatOpen
    /\ \E question \in ExampleQuestions :
         IF question # <<>>
         THEN handleSendMessage(question)
         ELSE UNCHANGED vars

\* how a /chat request ends: an answer, an OK response whose JSON is null, a
\* response that is not OK, or no response at all
Outcomes == {"answer", "null", "notOk", "failed"}

\* handleSendMessage after its await: the request of one pending call settles
Settle ==
    /\ pc = "ready"
    /\ \E call \in pending, outcome \in Outcomes :
         /\ pending' = pending \ {call}
         /\ IF outcome = "answer"
            THEN /\ chatMessages' = Append(chatMessages, Message(AnswerText, "bot"))
                 /\ conversationHistory' = Append(conversationHistory,
                        [question |-> call.question, answer |-> AnswerText])
                 /\ UNCHANGED errorText
            ELSE /\ chatMessages' = Append(chatMessages, Message(Apology, "bot"))
                 /\ errorText' =
                        IF outcome = "null"
                        THEN "Cannot read properties of null (reading 'answer')"
                        ELSE IF outcome = "notOk" THEN "Server error"
                        ELSE "Could not connect to local server. Make sure it's running on port 5000."
                 /\ UNCHANGED conversationHistory
    /\ sendDisabled' = FALSE
    /\ sendLoadingShown' = FALSE
    /\ UNCHANGED <<page, pc, currentUrl, restaurantData, statusText, chatShown, result, calls,
                   opens, chatInput, stats, badgeVars>>

InitChat ==
    /\ dom = EmptyDom
    /\ title = TitleLuigiGoogleMaps
    /\ href \in {HrefLuigi, HrefElsewhere}
    /\ brokenSelectors = {}
    /\ FreshPopup
    /\ result = NotRun
    /\ calls = <<>>
    /\ opens = 1
    /\ ChatIdle
    /\ BadgeIdle

NextChat ==
    \/ checkCurrentPage
    \/ ScrapeOk
    \/ ScrapeFail
    \/ Fallback
    \/ Reopen
    \/ TypeInput
    \/ ClickSend
    \/ handleKeyPress
    \/ ClickExample
    \/ Settle

SpecChat == InitChat /\ [][NextChat]_vars

\* C11: while a /chat request started by handleSendMessage has not settled,
\* the send button is disabled and the loading indicator is shown, so the
\* button is enabled only when no request is outstanding.
C11_DisabledWhilePending == pending # {} => (sendDisabled /\ sendLoadingShown)

CountOf(type) == Cardinality({i \in 1..Len(chatMessages) : chatMessages[i].type = type})

Answers == {i \in 1..Len(chatMessages) :
              chatMessages[i].type = "bot" /\ chatMessages[i].text # Apology}

\* one user message per non-blank submission, one bot message per settled
\* request, one history entry per answer
C12_Counts ==
    /\ CountOf("user") = stats.submitted
    /\ CountOf("bot") + Cardinality(pending) = CountOf("user")
    /\ CountOf("bot") <= CountOf("user")
    /\ pending = {} => CountOf("bot") = CountOf("user")
    /\ Len(conversationHistory) = Cardinality(Answers)

\* C12: a non-blank submission appends exactly one user message, and the
\* settling of its request exactly one bot message, the answer of the server
\* (which alone enters conversationHistory) or the apology; bot messages never
\* outnumber user messages and equal them when nothing is outstanding; a blank
\* input appends nothing and sends no request.
C12_OneUserOneBot ==
    [][/\ C12_Counts'
       /\ stats'.blank > stats.blank =>
             /\ UNCHANGED <<chatMessages, pending, conversationHistory>>
             /\ stats'.chatRequests = stats.chatRequests
       /\ stats'.submitted > stats.submitted =>
             /\ Len(chatMessages') > Len(chatMessages)
             /\ chatMessages'[Len(chatMessages) + 1].type = "user"
             /\ CountOf("user")' = CountOf("user") + 1
             /\ UNCHANGED conversationHistory
       /\ (opens' = opens /\ pending' # pending /\ pending' \subseteq pending) =>
             /\ Cardinality(pending') = Cardinality(pending) - 1
             /\ \/ /\ chatMessages' = Append(chatMessages, Message(Apology, "bot"))
                   /\ UNCHANGED conversationHistory
                \/ /\ Len(conversationHistory') = Len(conversationHistory) + 1
                   /\ chatMessages' = Append(chatMessages,
                          Message(conversationHistory'[Len(conversationHistory')].answer, "bot"))
      ]_vars

\* two questions were asked at once; one was answered and one failed
C12_Witness ==
    /\ pending = {}
    /\ stats.blank > 0
    /\ CountOf("user") = 2
    /\ CountOf("bot") = 2
    /\ Len(conversationHistory) = 1
    /\ chatMessages[1].type = "user"
    /\ chatMessages[2].type = "user"

\* C13: a /chat request is made only while restaurantData is set; once the
\* /scrape load has failed restaurantData stays null while the popup lives, and
\* every question is then answered with the apology and the "No restaurant data
\* loaded" error, in the chat that is shown, without a /chat request.
C13_NoChatWithoutData ==
    [][/\ stats'.chatRequests > stats.chatRequests => restaurantData.loaded
       /\ (pc \in {"fallback", "ready"} /\ ~restaurantData.loaded /\ opens' = opens) =>
             ~restaurantData'.loaded
       /\ (pc = "ready" /\ ~restaurantData.loaded /\ stats'.submitted > stats.submitted) =>
             /\ stats'.chatRequests = stats.chatRequests
             /\ pending' = {}
             /\ chatMessages'[Len(chatMessages')] = Message(Apology, "bot")
             /\ Len(chatMessages') = Len(chatMessages) + 2
             /\ errorText' = NoRestaurantDataMessage
             /\ chatShown'
      ]_vars

\* the load failed, two questions were asked, and no /chat request was made
C13_Witness ==
    /\ pc = "ready"
    /\ ~restaurantData.loaded
    /\ chatShown
    /\ stats.submitted = 2
    /\ stats.chatRequests = 0
    /\ Len(chatMessages) = 4
    /\ chatMessages[4] = Message(Apology, "bot")
    /\ errorText = NoRestaurantDataMessage

(***************************************************************************)
(* The background service worker: the listener of chrome.tabs.onUpdated    *)
(* sets the badge of a tab.                                                *)
(***************************************************************************)
\* the badge text of a Google Maps tab, U+1F4CD
Pin == <<55357, 56525>>

\* changeInfo.status; "" when the event reports no status
Statuses == {"", "loading", "complete"}

HrefMapsGoogleCom ==
    S(<<"h", "t", "t", "p", "s", ":", "/", "/", "m", "a", "p", "s", ".", "g", "o", "o",
        "g", "l", "e", ".", "c", "o", "m", "/", "?", "q", "=", "p", "i", "z", "z", "a">>)

HrefGoogleSearch ==
    S(<<"h", "t", "t", "p", "s", ":", "/", "/", "w", "w", "w", ".", "g", "o", "o", "g",
        "l", "e", ".", "c", "o", "m", "/", "s", "e", "a", "r", "c", "h", "?", "q", "=",
        "m", "a", "p", "s">>)

\* tab.url: absent, empty while nothing is committed, or an address
TabUrls ==
    { UndefinedUrl, Url(<<>>), Url(HrefLuigi), Url(HrefMapsGoogleCom),
      Url(HrefElsewhere), Url(HrefGoogleSearch) }

\* the test of the listener with its second alternative missing
isGoogleMapsFirstOnly(url) == Includes(url, GoogleComMaps)

\* the test of the listener on tab.url
isGoogleMaps(url) == Includes(url, GoogleComMaps) \/ Includes(url, MapsGoogleCom)

\* the listener of chrome.tabs.onUpdated on one event; a tab whose load is
\* complete has committed its address, so its url is not empty
onUpdated ==
    /\ \E tabId \in Tabs, status \in Statuses, tab \in TabUrls :
         /\ status = "complete" => tab # Url(<<>>)
         /\ lastEvent' = [tabId |-> tabId, status |-> status, tab |-> tab]
         /\ lastComplete' = IF status = "complete" /\ tab.defined
                            THEN [lastComplete EXCEPT ![tabId] = tab]
                            ELSE lastComplete
         /\ IF status = "complete" /\ tab.defined /\ tab.url # <<>>
            THEN IF isGoogleMaps(tab.url)
                 THEN /\ badgeText' = [badgeText EXCEPT ![tabId] = Pin]
                      /\ badgeColor' = [badgeColor EXCEPT ![tabId] = "#4CAF50"]
                 ELSE /\ badgeText' = [badgeText EXCEPT ![tabId] = <<>>]
                      /\ UNCHANGED badgeColor
            ELSE UNCHANGED <<badgeText, badgeColor>>
    /\ UNCHANGED <<page, pc, popupVars, statusText, chatShown, errorText, result, calls,
                   opens, chatVars>>

\* the browser with the popup not yet used
InitBadge ==
    /\ dom = EmptyDom
    /\ title = TitleLuigiGoogleMaps
    /\ href = HrefLuigi
    /\ brokenSelectors = {}
    /\ FreshPopup
    /\ result = NotRun
    /\ calls = <<>>
    /\ opens = 1
    /\ ChatIdle
    /\ BadgeIdle

NextBadge == onUpdated

SpecBadge == InitBadge /\ [][NextBadge]_vars

\* a Google Maps address as the claim words it
IsMapsAddress(url) == Includes(url, GoogleComMaps) \/ Includes(url, MapsGoogleCom)

====
